---- MODULE Spec2Model ----
(***************************************************************************)
(* sshportal: host and path alias store, the path-specification resolver   *)
(* (path.rs parse_path_spec), the hostname validator and the persistence    *)
(* of the store (config.rs).                                                *)
(*                                                                          *)
(* Strings are sequences of one-character strings, so that splitting,       *)
(* prefix tests and per-character checks are computed as the code computes  *)
(* them.  Fixed fragments of a formatted message are single elements.       *)
(* Option<T> is a sequence of length at most one.  A HashMap is a function  *)
(* whose domain is its key set.                                             *)
(***************************************************************************)
EXTENDS Naturals, Sequences, FiniteSets, TLC

VARIABLES disk, op, args, saved, result

vars == <<disk, op, args, saved, result>>

None == <<>>
Some(x) == <<x>>

(***************************************************************************)
(* Bounds of the model.                                                     *)
(***************************************************************************)
MaxSpecLen == 2
MaxTokLen == 3

(***************************************************************************)
(* String helpers (str::contains, str::starts_with, str::splitn(2, ':')).   *)
(***************************************************************************)
Contains(s, ch) == \E i \in 1..Len(s) : s[i] = ch

StartsWith(s, p) == Len(s) >= Len(p) /\ SubSeq(s, 1, Len(p)) = p

\* rsplitn in place of splitn: the split is at the last separator
LastIndex(s, ch) == CHOOSE i \in 1..Len(s) : s[i] = ch /\ \A j \in (i + 1)..Len(s) : s[j] # ch

FirstIndex(s, ch) == CHOOSE i \in 1..Len(s) : s[i] = ch /\ \A j \in 1..(i - 1) : s[j] # ch

SplitLeft(s, ch) == SubSeq(s, 1, FirstIndex(s, ch) - 1)

SplitRight(s, ch) == SubSeq(s, FirstIndex(s, ch) + 1, Len(s))

Strings(alphabet, n) == UNION {[1..k -> alphabet] : k \in 0..n}

Insert(m, k, v) == [x \in (DOMAIN m) \cup {k} |-> IF x = k THEN v ELSE m[x]]

Remove(m, k) == [x \in (DOMAIN m) \ {k} |-> m[x]]

EmptyMap == [x \in {} |-> x]

(***************************************************************************)
(* Config::expand_path: "~/rest" becomes home.join(rest); PathBuf::join     *)
(* replaces the base when rest is absolute and appends a separator         *)
(* otherwise.  Every other string is returned unchanged.                    *)
(***************************************************************************)
HomeDir == <<"/", "u">>

expand_path(path) ==
    IF StartsWith(path, <<"~", "/">>)
    THEN LET rest == SubSeq(path, 3, Len(path))
         IN  IF StartsWith(rest, <<"/">>) THEN rest ELSE HomeDir \o <<"/">> \o rest
    ELSE path

(***************************************************************************)
(* Persistence: the JSON value written by Config::save and read back by     *)
(* Config::load.  An object is a function from keys to values; null is a    *)
(* tagged value.                                                            *)
(***************************************************************************)
JNull == [t |-> "null"]
JObj(f) == [t |-> "obj", v |-> f]

\* the key path is never written
HostToJsonNoKey(h) == [connection |-> h.connection, port |-> h.port]

HostToJson(h) ==
    IF h.key_path = None
    THEN [connection |-> h.connection, port |-> h.port]
    ELSE [connection |-> h.connection, port |-> h.port, key_path |-> h.key_path[1]]

HostFromJson(j) ==
    [connection |-> j.connection,
     port |-> j.port,
     key_path |-> IF "key_path" \in DOMAIN j THEN Some(j.key_path) ELSE None]

PathToJson(p) == [path |-> p.path, is_remote |-> p.is_remote]

PathFromJson(j) == [path |-> j.path, is_remote |-> j.is_remote]

ConfigToJson(c) ==
    [hosts |-> [n \in DOMAIN c.hosts |-> HostToJson(c.hosts[n])],
     paths |-> IF c.paths = None
               THEN JNull
               ELSE JObj([n \in DOMAIN c.paths[1] |-> PathToJson(c.paths[1][n])]),
     local_paths |-> [n \in DOMAIN c.local_paths |-> c.local_paths[n]],
     host_paths |-> [h \in DOMAIN c.host_paths |->
                        [n \in DOMAIN c.host_paths[h] |-> c.host_paths[h][n]]]]

ConfigFromJson(j) ==
    [hosts |-> [n \in DOMAIN j.hosts |-> HostFromJson(j.hosts[n])],
     paths |-> IF j.paths.t = "null"
               THEN None
               ELSE Some([n \in DOMAIN j.paths.v |-> PathFromJson(j.paths.v[n])]),
     local_paths |-> [n \in DOMAIN j.local_paths |-> j.local_paths[n]],
     host_paths |-> [h \in DOMAIN j.host_paths |->
                        [n \in DOMAIN j.host_paths[h] |-> j.host_paths[h][n]]]]

save(c) == ConfigToJson(c)

load == ConfigFromJson(disk)

DefaultConfig(legacy) ==
    [hosts |-> EmptyMap, paths |-> legacy, local_paths |-> EmptyMap, host_paths |-> EmptyMap]

(***************************************************************************)
(* Hostname validator (path.rs is_valid_hostname, is_valid_ip_address).     *)
(***************************************************************************)
MaxHostnameLen == 253

Digits == {"0", "1", "2", "3", "4", "5", "6", "7", "8", "9"}

LowerLetters ==
    {"a", "b", "c", "d", "e", "f", "g", "h", "i", "j", "k", "l", "m",
     "n", "o", "p", "q", "r", "s", "t", "u", "v", "w", "x", "y", "z"}

UpperLetters ==
    {"A", "B", "C", "D", "E", "F", "G", "H", "I", "J", "K", "L", "M",
     "N", "O", "P", "Q", "R", "S", "T", "U", "V", "W", "X", "Y", "Z"}

\* the match arm 'a'..='z' | 'A'..='Z' | '0'..='9'
IsAsciiAlnum(ch) == ch \in LowerLetters \cup UpperLetters \cup Digits

\* characters of the model that take two bytes in UTF-8
TwoByteChars == {"é"}

Utf8Len(ch) == IF ch \in TwoByteChars THEN 2 ELSE 1

\* str::len counts bytes
ByteLen(s) == Len(s) + Cardinality({i \in 1..Len(s) : Utf8Len(s[i]) = 2})

DigitVal(ch) ==
    CASE ch = "0" -> 0 [] ch = "1" -> 1 [] ch = "2" -> 2 [] ch = "3" -> 3 [] ch = "4" -> 4
      [] ch = "5" -> 5 [] ch = "6" -> 6 [] ch = "7" -> 7 [] ch = "8" -> 8 [] ch = "9" -> 9

RECURSIVE Split(_, _)
\* str::split(ch): the parts between the separators, empty parts included
Split(s, ch) ==
    IF ~Contains(s, ch) THEN <<s>>
    ELSE <<SplitLeft(s, ch)>> \o Split(SplitRight(s, ch), ch)

RECURSIVE DecimalValue(_, _)
DecimalValue(ds, acc) ==
    IF ds = <<>> THEN acc ELSE DecimalValue(Tail(ds), acc * 10 + DigitVal(Head(ds)))

\* str::parse::<u8>: an optional '+', then one or more decimal digits, value <= 255
ParseU8(part) ==
    LET ds == IF part # <<>> /\ Head(part) = "+" THEN Tail(part) ELSE part
    IN  IF ds = <<>> \/ \E i \in 1..Len(ds) : ds[i] \notin Digits
        THEN None
        ELSE IF DecimalValue(ds, 0) > 255 THEN None ELSE Some(DecimalValue(ds, 0))

is_valid_ip_address(ip) ==
    LET parts == Split(ip, ".")
    IN  IF Len(parts) # 4 THEN FALSE
        ELSE \A k \in 1..4 :
                 /\ ParseU8(parts[k]) # None
                 /\ ~(Len(parts[k]) > 1 /\ StartsWith(parts[k], <<"0">>))

\* adjacent periods are not rejected
CharRejectedNoAdjacentDots(chars, i) ==
    IF IsAsciiAlnum(chars[i]) THEN FALSE
    ELSE IF chars[i] = "-" THEN i = 1 \/ i = Len(chars)
    ELSE IF chars[i] = "." THEN i = 1 \/ i = Len(chars)
    ELSE TRUE

\* One iteration of the for loop over chars returns false; i is the 1-based
\* position (the code's i + 1).
CharRejected(chars, i) ==
    IF IsAsciiAlnum(chars[i]) THEN FALSE
    ELSE IF chars[i] = "-" THEN i = 1 \/ i = Len(chars)
    ELSE IF chars[i] = "."
         THEN IF i = 1 \/ i = Len(chars) THEN TRUE
              ELSE i > 1 /\ chars[i - 1] = "."
    ELSE TRUE

\* the loop falls through exactly when no iteration returns false
HostnameLoop(chars) == \A i \in 1..Len(chars) : ~CharRejected(chars, i)

is_valid_hostname(hostname) ==
    IF hostname = <<>> \/ ByteLen(hostname) > MaxHostnameLen THEN FALSE
    ELSE IF ~HostnameLoop(hostname) THEN FALSE
    ELSE IF is_valid_ip_address(hostname) THEN TRUE
    ELSE TRUE

(***************************************************************************)
(* Path-specification resolver (path.rs parse_path_spec).                   *)
(***************************************************************************)
Ok(path, host) == [ok |-> TRUE, path |-> path, host |-> host, msg |-> <<>>]

Err(msg) == [ok |-> FALSE, path |-> <<>>, host |-> None, msg |-> msg]

\* The fixed fragments are the code's Japanese message texts, rendered in ASCII.
NotRemotePathMsg(path) == <<"path '">> \o path \o <<"' is not a remote path">>

UnknownHostMsg(host) ==
    <<"host '">> \o host \o <<"' not found and not a valid SSH connection string">>

RemoteWithoutHostMsg(spec) ==
    <<"path '">> \o spec \o <<"' is a remote path but no host is specified">>

\* the remote alias is not substituted
AliasHostBranchLiteral(host, path, config) ==
    IF config.paths # None /\ path \in DOMAIN config.paths[1]
    THEN IF ~config.paths[1][path].is_remote
         THEN Err(NotRemotePathMsg(path))
         ELSE Ok(path, Some(host))
    ELSE Ok(path, Some(host))

\* the is_remote flag is not tested
AliasHostBranchNoRemoteCheck(host, path, config) ==
    IF config.paths # None /\ path \in DOMAIN config.paths[1]
    THEN Ok(config.paths[1][path].path, Some(host))
    ELSE Ok(path, Some(host))

\* Branch of a registered host alias (the legacy table is consulted for path).
AliasHostBranchHostPaths(host, path, config) ==
    IF host \in DOMAIN config.host_paths /\ path \in DOMAIN config.host_paths[host]
    THEN Ok(config.host_paths[host][path], Some(host))
    ELSE IF config.paths # None /\ path \in DOMAIN config.paths[1]
    THEN IF ~config.paths[1][path].is_remote
         THEN Err(NotRemotePathMsg(path))
         ELSE Ok(config.paths[1][path].path, Some(host))
    ELSE Ok(path, Some(host))

AliasHostBranch(host, path, config) ==
    IF config.paths # None /\ path \in DOMAIN config.paths[1]
    THEN IF ~config.paths[1][path].is_remote
         THEN Err(NotRemotePathMsg(path))
         ELSE Ok(config.paths[1][path].path, Some(host))
    ELSE Ok(path, Some(host))

\* the legacy table is consulted for a raw host as well
RawHostBranchLegacy(host, path, config) ==
    IF Contains(host, "@") \/ is_valid_hostname(host)
    THEN IF config.paths # None /\ path \in DOMAIN config.paths[1]
         THEN IF ~config.paths[1][path].is_remote
              THEN Err(NotRemotePathMsg(path))
              ELSE Ok(config.paths[1][path].path, Some(host))
         ELSE Ok(path, Some(host))
    ELSE Err(UnknownHostMsg(host))

\* the empty host is taken for a raw host
RawHostBranchEmptyHost(host, path, config) ==
    IF Contains(host, "@") \/ is_valid_hostname(host) \/ host = <<>>
    THEN Ok(path, Some(host))
    ELSE Err(UnknownHostMsg(host))

\* Branch of a host that is no alias: a raw SSH connection string, or unknown.
RawHostBranch(host, path, config) ==
    IF Contains(host, "@") \/ is_valid_hostname(host)
    THEN Ok(path, Some(host))
    ELSE Err(UnknownHostMsg(host))

\* the is_remote flag is not tested
NoColonBranchNoRemoteCheck(spec, config) ==
    IF config.paths # None /\ spec \in DOMAIN config.paths[1]
    THEN Ok(config.paths[1][spec].path, None)
    ELSE Ok(spec, None)

\* the local alias is not substituted
NoColonBranchLiteral(spec, config) ==
    IF config.paths # None /\ spec \in DOMAIN config.paths[1]
    THEN IF config.paths[1][spec].is_remote
         THEN Err(RemoteWithoutHostMsg(spec))
         ELSE Ok(spec, None)
    ELSE Ok(spec, None)

\* Branch of a spec without a colon: a legacy alias or a literal local path.
NoColonBranch(spec, config) ==
    IF config.paths # None /\ spec \in DOMAIN config.paths[1]
    THEN IF config.paths[1][spec].is_remote
         THEN Err(RemoteWithoutHostMsg(spec))
         ELSE Ok(config.paths[1][spec].path, None)
    ELSE Ok(spec, None)

parse_path_spec(spec, config) ==
    IF Contains(spec, ":")
    THEN LET host == SplitLeft(spec, ":")
             path == SplitRight(spec, ":")
         IN  IF host \in DOMAIN config.hosts
             THEN AliasHostBranch(host, path, config)
             ELSE RawHostBranch(host, path, config)
    ELSE NoColonBranch(spec, config)

(***************************************************************************)
(* Host management (host.rs) and path management (path.rs).  Each handler   *)
(* is given the loaded Config and returns the Config it ends with, whether  *)
(* it called save, and the level of the line it printed.                    *)
(***************************************************************************)
Outcome(config, saves, level) == [config |-> config, save |-> saves, out |-> level]

add_host_overwrite(config, name, connection, port, key_path) ==
    LET host == [connection |-> connection,
                 port |-> port,
                 key_path |-> IF key_path = None THEN None
                              ELSE Some(expand_path(key_path[1]))]
    IN  Outcome([config EXCEPT !.hosts = Insert(@, name, host)], TRUE, "INFO")

add_host(config, name, connection, port, key_path) ==
    IF name \in DOMAIN config.hosts
    THEN Outcome(config, FALSE, "WARN")
    ELSE LET host == [connection |-> connection,
                      port |-> port,
                      key_path |-> IF key_path = None THEN None
                                   ELSE Some(expand_path(key_path[1]))]
         IN  Outcome([config EXCEPT !.hosts = Insert(@, name, host)], TRUE, "INFO")

remove_host(config, name) ==
    IF name \notin DOMAIN config.hosts
    THEN Outcome(config, FALSE, "ERROR")
    ELSE Outcome([config EXCEPT !.hosts = Remove(@, name)], TRUE, "INFO")

\* config.paths.get_or_insert_with(HashMap::new)
GetOrInsertPaths(config) ==
    IF config.paths = None THEN [config EXCEPT !.paths = Some(EmptyMap)] ELSE config

add_path(config, name, path, is_remote) ==
    LET c == GetOrInsertPaths(config)
    IN  IF name \in DOMAIN c.paths[1]
        THEN Outcome(c, FALSE, "WARN")
        ELSE Outcome([c EXCEPT !.paths =
                         Some(Insert(c.paths[1], name, [path |-> path, is_remote |-> is_remote]))],
                     TRUE, "INFO")

remove_path(config, name) ==
    LET c == GetOrInsertPaths(config)
    IN  IF name \notin DOMAIN c.paths[1]
        THEN Outcome(c, FALSE, "ERROR")
        ELSE Outcome([c EXCEPT !.paths = Some(Remove(c.paths[1], name))], TRUE, "INFO")

\* the entry goes to the legacy table, as add_path writes it
add_local_path_legacy(config, name, path) ==
    LET c == GetOrInsertPaths(config)
    IN  IF name \in DOMAIN c.local_paths
        THEN Outcome(config, FALSE, "WARN")
        ELSE Outcome([c EXCEPT !.paths =
                         Some(Insert(c.paths[1], name, [path |-> path, is_remote |-> FALSE])),
                               !.local_paths = Insert(@, name, path)],
                     TRUE, "INFO")

add_local_path(config, name, path) ==
    IF name \in DOMAIN config.local_paths
    THEN Outcome(config, FALSE, "WARN")
    ELSE Outcome([config EXCEPT !.local_paths = Insert(@, name, path)], TRUE, "INFO")

add_host_path(config, host_name, path_name, path) ==
    IF host_name \notin DOMAIN config.hosts
    THEN Outcome(config, FALSE, "ERROR")
    ELSE LET c == IF host_name \in DOMAIN config.host_paths
                  THEN config
                  ELSE [config EXCEPT !.host_paths = Insert(@, host_name, EmptyMap)]
         IN  IF path_name \in DOMAIN c.host_paths[host_name]
             THEN Outcome(c, FALSE, "WARN")
             ELSE Outcome([c EXCEPT !.host_paths =
                              Insert(@, host_name, Insert(c.host_paths[host_name], path_name, path))],
                          TRUE, "INFO")

(***************************************************************************)
(* File transfer (path.rs copy_files).  The scp command is the list of      *)
(* arguments handed to it, each a string; the log lists the calls made, in  *)
(* order.                                                                   *)
(***************************************************************************)
DigitChar(d) == CHOOSE ch \in Digits : DigitVal(ch) = d

RECURSIVE to_string(_)
\* u16::to_string
to_string(n) ==
    IF n < 10 THEN <<DigitChar(n)>> ELSE to_string(n \div 10) \o <<DigitChar(n % 10)>>

FlagR == <<"-", "r">>
FlagP == <<"-", "P">>
FlagI == <<"-", "i">>

\* format!("{}:{}", connection, path)
Target(connection, path) == connection \o <<":">> \o path

\* the -P and -i arguments of a registered host
HostFlags(host_config) ==
    <<FlagP, to_string(host_config.port)>>
        \o (IF host_config.key_path # None THEN <<FlagI, host_config.key_path[1]>> ELSE <<>>)

SourceArgs(src_path, src_host, config) ==
    IF src_host # None
    THEN LET host == src_host[1]
         IN  IF host \in DOMAIN config.hosts
             THEN HostFlags(config.hosts[host])
                      \o <<Target(config.hosts[host].connection, src_path)>>
             ELSE <<FlagP, <<"2", "2">>, Target(host, src_path)>>
    ELSE <<expand_path(src_path)>>

DestinationArgsExpandRemote(dst_path, dst_host, src_is_local, config) ==
    IF dst_host # None
    THEN LET host == dst_host[1]
         IN  IF host \in DOMAIN config.hosts
             THEN (IF src_is_local THEN HostFlags(config.hosts[host]) ELSE <<>>)
                      \o <<Target(config.hosts[host].connection, expand_path(dst_path))>>
             ELSE (IF src_is_local THEN <<FlagP, <<"2", "2">>>> ELSE <<>>)
                      \o <<Target(host, expand_path(dst_path))>>
    ELSE <<expand_path(dst_path)>>

DestinationArgs(dst_path, dst_host, src_is_local, config) ==
    IF dst_host # None
    THEN LET host == dst_host[1]
         IN  IF host \in DOMAIN config.hosts
             THEN (IF src_is_local THEN HostFlags(config.hosts[host]) ELSE <<>>)
                      \o <<Target(config.hosts[host].connection, dst_path)>>
             ELSE (IF src_is_local THEN <<FlagP, <<"2", "2">>>> ELSE <<>>)
                      \o <<Target(host, dst_path)>>
    ELSE <<expand_path(dst_path)>>

\* what cmd.status() can come back with: the exit status of scp, or an
\* error when scp could not be started
StatusOutcomes == {"success", "failure", "io_error"}

\* what one run of copy_files did: the calls it made, the two resolutions
\* (None when not made), the command (None when not built), how many times
\* the command was run, the error returned (None for Ok) and the level of
\* the last line printed
Copied(log, src, dst, cmd, runs, err, level) ==
    [log |-> log, src |-> src, dst |-> dst, cmd |-> cmd, runs |-> runs,
     err |-> err, level |-> level]

copy_files_dst_first(config, src, dst, status) ==
    LET d == parse_path_spec(dst, config)
        s == parse_path_spec(src, config)
    IN  IF ~d.ok
        THEN Outcome(config, FALSE,
                     Copied(<<"load", "parse_dst">>, None, Some(d), None, 0, Some(d.msg), "ERROR"))
        ELSE IF ~s.ok
        THEN Outcome(config, FALSE,
                     Copied(<<"load", "parse_dst", "parse_src">>, Some(s), Some(d), None, 0,
                            Some(s.msg), "ERROR"))
        ELSE LET cmd == <<FlagR>> \o SourceArgs(s.path, s.host, config)
                            \o DestinationArgs(d.path, d.host, s.host = None, config)
             IN  Outcome(config, FALSE,
                         Copied(<<"load", "parse_dst", "parse_src", "command", "status">>,
                                Some(s), Some(d), Some(cmd), 1,
                                IF status = "io_error" THEN Some(<<"i", "o">>) ELSE None,
                                IF status = "success" THEN "INFO" ELSE "ERROR"))

copy_files_consuming(config, src, dst, status) ==
    LET s == parse_path_spec(src, config)
        used == [config EXCEPT !.paths = IF s.ok /\ s.host # None THEN Some(EmptyMap) ELSE @]
        d == parse_path_spec(dst, used)
    IN  IF ~s.ok
        THEN Outcome(config, FALSE,
                     Copied(<<"load", "parse_src">>, Some(s), None, None, 0, Some(s.msg), "ERROR"))
        ELSE IF ~d.ok
        THEN Outcome(config, FALSE,
                     Copied(<<"load", "parse_src", "parse_dst">>, Some(s), Some(d), None, 0,
                            Some(d.msg), "ERROR"))
        ELSE LET cmd == <<FlagR>> \o SourceArgs(s.path, s.host, config)
                            \o DestinationArgs(d.path, d.host, s.host = None, config)
             IN  Outcome(used, TRUE,
                         Copied(<<"load", "parse_src", "parse_dst", "command", "status">>,
                                Some(s), Some(d), Some(cmd), 1,
                                IF status = "io_error" THEN Some(<<"i", "o">>) ELSE None,
                                IF status = "success" THEN "INFO" ELSE "ERROR"))

copy_files(config, src, dst, status) ==
    LET s == parse_path_spec(src, config)
        d == parse_path_spec(dst, config)
    IN  IF ~s.ok
        THEN Outcome(config, FALSE,
                     Copied(<<"load", "parse_src">>, Some(s), None, None, 0, Some(s.msg), "ERROR"))
        ELSE IF ~d.ok
        THEN Outcome(config, FALSE,
                     Copied(<<"load", "parse_src", "parse_dst">>, Some(s), Some(d), None, 0,
                            Some(d.msg), "ERROR"))
        ELSE LET cmd == <<FlagR>> \o SourceArgs(s.path, s.host, config)
                            \o DestinationArgs(d.path, d.host, s.host = None, config)
             IN  Outcome(config, FALSE,
                         Copied(<<"load", "parse_src", "parse_dst", "command", "status">>,
                                Some(s), Some(d), Some(cmd), 1,
                                IF status = "io_error" THEN Some(<<"i", "o">>) ELSE None,
                                IF status = "success" THEN "INFO" ELSE "ERROR"))

(***************************************************************************)
(* Path listing (path.rs list_paths_new).  The output is the list of lines  *)
(* printed; a line is its kind, the name it shows, for a legacy entry the   *)
(* type shown, and the path it shows.  A HashMap is iterated in an order    *)
(* the program does not choose: iter gives the order of each table.         *)
(***************************************************************************)
Line(kind, name, type, value) == [kind |-> kind, name |-> name, type |-> type, value |-> value]

Heading(kind) == Line(kind, <<>>, "", <<>>)

Blank == Line("blank", <<>>, "", <<>>)

RECURSIVE Concat(_)
Concat(seqs) == IF seqs = <<>> THEN <<>> ELSE Head(seqs) \o Concat(Tail(seqs))

\* the orders in which a table with these keys can be iterated
Orders(keys) ==
    {o \in [1..Cardinality(keys) -> keys] : \A k \in keys : \E i \in DOMAIN o : o[i] = k}

LocalSection(config, order) ==
    IF DOMAIN config.local_paths # {}
    THEN <<Heading("local_heading")>>
             \o [i \in 1..Len(order) |->
                    Line("local_entry", order[i], "", expand_path(config.local_paths[order[i]]))]
             \o <<Blank>>
    ELSE <<>>

HostLines(config, host_name, order) ==
    <<Line("host_name", host_name, "", <<>>)>>
        \o [j \in 1..Len(order) |->
               Line("host_entry", order[j], "", config.host_paths[host_name][order[j]])]

HostSection(config, hosts, by_host) ==
    IF DOMAIN config.host_paths # {}
    THEN <<Heading("host_heading")>>
             \o Concat([i \in 1..Len(hosts) |-> HostLines(config, hosts[i], by_host[hosts[i]])])
             \o <<Blank>>
    ELSE <<>>

LegacyLine(name, path) ==
    Line("legacy_entry", name,
         IF path.is_remote THEN "remote" ELSE "local",
         IF ~path.is_remote THEN expand_path(path.path) ELSE path.path)

LegacySection(config, order) ==
    IF config.paths # None /\ DOMAIN config.paths[1] # {}
    THEN <<Heading("legacy_heading")>>
             \o [i \in 1..Len(order) |-> LegacyLine(order[i], config.paths[1][order[i]])]
    ELSE <<>>

NoPathsLine(config) ==
    IF /\ DOMAIN config.local_paths = {}
       /\ DOMAIN config.host_paths = {}
       /\ (config.paths = None \/ DOMAIN config.paths[1] = {})
    THEN <<Heading("no_paths")>>
    ELSE <<>>

Iterations(config) ==
    [local : Orders(DOMAIN config.local_paths),
     hosts : Orders(DOMAIN config.host_paths),
     by_host : {f \in [DOMAIN config.host_paths ->
                          UNION {Orders(DOMAIN config.host_paths[h]) : h \in DOMAIN config.host_paths}] :
                   \A h \in DOMAIN config.host_paths : f[h] \in Orders(DOMAIN config.host_paths[h])},
     legacy : IF config.paths = None THEN {<<>>} ELSE Orders(DOMAIN config.paths[1])]

list_paths_new_legacy_first(config, iter) ==
    Outcome(config, FALSE,
            LegacySection(config, iter.legacy)
                \o LocalSection(config, iter.local)
                \o HostSection(config, iter.hosts, iter.by_host)
                \o NoPathsLine(config))

list_paths_new(config, iter) ==
    Outcome(config, FALSE,
            LocalSection(config, iter.local)
                \o HostSection(config, iter.hosts, iter.by_host)
                \o LegacySection(config, iter.legacy)
                \o NoPathsLine(config))

(***************************************************************************)
(* Inputs.                                                                  *)
(***************************************************************************)
HostH == <<"h">>
HostG == <<"g">>
HostAt == <<"u", "@", "h">>
HostBang == <<"!">>
HostColon == <<"h", ":", "h">>

PathP == <<"p">>
RemoteDir == <<"/", "r">>
LocalDir == <<"~", "/", "l">>

\* names given to add-host
HostNameArgs == {HostH, HostColon}
ConnectionArgs == {<<"u", "@", "x">>}
PortArgs == {22, 2222}
KeyArgs == {None, Some(<<"~", "/", "k">>)}

\* names and paths given to add-path, add_local_path and add_host_path
PathNameArgs == {PathP, HostH}
LegacyPathArgs == {RemoteDir}
LocalNameArgs == {PathP}
LocalPathArgs == {LocalDir}
HostPathNameArgs == {PathP}
HostPathArgs == {RemoteDir}

\* specs given to copy
CopyArgs == {PathP, Target(HostH, PathP)}

(***************************************************************************)
(* One invocation of the program: load, run the handler, save if it did.    *)
(***************************************************************************)
Invoke(name, a, r) ==
    /\ op' = name
    /\ args' = a
    /\ result' = r.out
    /\ saved' = IF r.save THEN Some(r.config) ELSE None
    /\ disk' = IF r.save THEN save(r.config) ELSE disk

AddHost ==
    \E name \in HostNameArgs, connection \in ConnectionArgs, port \in PortArgs, key \in KeyArgs :
        Invoke("add_host", <<name, connection, port, key>>,
               add_host(load, name, connection, port, key))

RemoveHost ==
    \E name \in HostNameArgs : Invoke("remove_host", <<name>>, remove_host(load, name))

AddPath ==
    \E name \in PathNameArgs, path \in LegacyPathArgs, is_remote \in BOOLEAN :
        Invoke("add_path", <<name, path, is_remote>>, add_path(load, name, path, is_remote))

RemovePath ==
    \E name \in PathNameArgs : Invoke("remove_path", <<name>>, remove_path(load, name))

AddLocalPath ==
    \E name \in LocalNameArgs, path \in LocalPathArgs :
        Invoke("add_local_path", <<name, path>>, add_local_path(load, name, path))

AddHostPath ==
    \E host_name \in HostNameArgs, path_name \in HostPathNameArgs, path \in HostPathArgs :
        Invoke("add_host_path", <<host_name, path_name, path>>,
               add_host_path(load, host_name, path_name, path))

ListPaths ==
    \E iter \in Iterations(load) : Invoke("list_paths_new", <<>>, list_paths_new(load, iter))

Copy(specs) ==
    \E src \in specs, dst \in specs, status \in StatusOutcomes :
        Invoke("copy_files", <<src, dst>>, copy_files(load, src, dst, status))

CopyFiles == Copy(CopyArgs)

\* Config::load on first run writes the default Config; the legacy table of
\* a store is absent or present.
Init ==
    /\ \E legacy \in {None, Some(EmptyMap)} :
          /\ disk = save(DefaultConfig(legacy))
          /\ saved = Some(DefaultConfig(legacy))
    /\ op = "init"
    /\ args = <<>>
    /\ result = "INFO"

Next ==
    \/ AddHost
    \/ RemoveHost
    \/ AddPath
    \/ RemovePath
    \/ AddLocalPath
    \/ AddHostPath
    \/ ListPaths
    \/ CopyFiles

Spec == Init /\ [][Next]_vars

(***************************************************************************)
(* File transfer on its own: copies between every pair of specs, against    *)
(* stores whose two hosts differ in connection, port and key.               *)
(***************************************************************************)
HostKey == expand_path(<<"~", "/", "k">>)

CopyHostsOf(name, connection) ==
    {EmptyMap,
     Insert(EmptyMap, name, [connection |-> connection, port |-> 22, key_path |-> None]),
     Insert(EmptyMap, name, [connection |-> connection, port |-> 2222, key_path |-> Some(HostKey)])}

CopyHostTables ==
    {[n \in DOMAIN a \cup DOMAIN b |-> IF n \in DOMAIN a THEN a[n] ELSE b[n]] :
        a \in CopyHostsOf(HostH, <<"u", "@", "x">>), b \in CopyHostsOf(HostG, <<"u", "@", "y">>)}

CopyLegacyTables ==
    {None, Some(EmptyMap),
     Some(Insert(EmptyMap, PathP, [path |-> RemoteDir, is_remote |-> TRUE])),
     Some(Insert(EmptyMap, PathP, [path |-> LocalDir, is_remote |-> FALSE]))}

CopyStores ==
    {[hosts |-> h, paths |-> l, local_paths |-> EmptyMap, host_paths |-> EmptyMap] :
        h \in CopyHostTables, l \in CopyLegacyTables}

CopySpecs ==
    {PathP, LocalDir, Target(HostH, PathP), Target(HostH, LocalDir), Target(HostG, RemoteDir),
     Target(HostAt, RemoteDir), Target(HostBang, PathP)}

CopyFilesBetween == Copy(CopySpecs)

InitCopy ==
    /\ \E c \in CopyStores :
          /\ disk = save(c)
          /\ saved = Some(c)
    /\ op = "init"
    /\ args = <<>>
    /\ result = "INFO"

NextCopy == CopyFilesBetween

SpecCopy == InitCopy /\ [][NextCopy]_vars

(***************************************************************************)
(* The resolver on its own: one resolution of one spec against a store.     *)
(* The stores are those the handlers above can leave on disk.               *)
(***************************************************************************)
DefaultHost == [connection |-> <<"u", "@", "x">>, port |-> 22, key_path |-> None]

ResolverHostNames == {HostH, HostAt, HostBang, HostColon}

LegacyValues ==
    {[path |-> RemoteDir, is_remote |-> TRUE], [path |-> LocalDir, is_remote |-> FALSE]}

LegacyTables ==
    {None} \cup {Some(m) : m \in UNION {[names -> LegacyValues] : names \in SUBSET PathNameArgs}}

ResolverStores ==
    {[hosts |-> [n \in names |-> DefaultHost],
      paths |-> legacy,
      local_paths |-> local,
      host_paths |-> byHost] :
        names \in SUBSET ResolverHostNames,
        legacy \in LegacyTables,
        local \in {EmptyMap, [n \in {PathP} |-> LocalDir]},
        byHost \in {EmptyMap, [h \in {HostH} |-> [n \in {PathP} |-> RemoteDir]]}}

SpecAlphabet == {"h", "p", ":", "@", "!"}

Lefts == ResolverHostNames \cup {HostG, <<"u", "@", "g">>, <<"g", "!">>, <<>>}

Rights == {PathP, HostH, RemoteDir, LocalDir, <<"p", ":", "q">>, <<>>}

SpecInputs ==
    Strings(SpecAlphabet, MaxSpecLen)
        \cup {l \o <<":">> \o r : l \in Lefts, r \in Rights}
        \cup Rights

ParsePathSpec ==
    /\ op = "init"
    /\ \E spec \in SpecInputs :
          /\ op' = "parse_path_spec"
          /\ args' = <<spec>>
          /\ result' = parse_path_spec(spec, load)
    /\ saved' = None
    /\ UNCHANGED disk

InitResolve ==
    /\ disk \in {save(c) : c \in ResolverStores}
    /\ op = "init"
    /\ args = <<>>
    /\ saved = None
    /\ result = "INFO"

NextResolve == ParsePathSpec

SpecResolve == InitResolve /\ [][NextResolve]_vars

(***************************************************************************)
(* The validators on their own: one call on one token.                      *)
(***************************************************************************)
Rep(ch, n) == [i \in 1..n |-> ch]

TokAlphabet == {"a", "Z", "0", "-", ".", "+", "é"}

NamedTokens ==
    {<<"a", ".", ".", "b">>,
     <<"-", "a", "b", "c">>,
     <<"a", "b", "c", "-">>,
     <<"a", "-", "-", "b">>,
     <<"w", "e", "b", "-", "0", "1", ".", "i", "n", "t", "e", "r", "n", "a", "l">>,
     <<"1", "0", ".", "0", ".", "0", ".", "5">>,
     <<"0", "1", "0", ".", "0", ".", "0", ".", "5">>,
     <<"2", "5", "5", ".", "2", "5", "5", ".", "2", "5", "5", ".", "2", "5", "5">>,
     <<"2", "5", "6", ".", "0", ".", "0", ".", "5">>,
     <<"+", "1", ".", "2", ".", "3", ".", "4">>,
     <<"1", ".", "2", ".", "3">>,
     <<"1", ".", "2", ".", "3", ".", "4", ".", "5">>,
     <<"1", ".", "2", ".", ".", "4">>,
     <<"1", ".", "2", ".", "3", ".", "x">>,
     <<"a", "_", "b">>,
     Rep("a", MaxHostnameLen),
     Rep("a", MaxHostnameLen + 1),
     Rep("a", MaxHostnameLen - 1) \o <<"-">>,
     Rep("é", 127)}

Tokens == Strings(TokAlphabet, MaxTokLen) \cup NamedTokens

IsValidHostname ==
    /\ op = "init"
    /\ \E token \in Tokens :
          /\ op' = "is_valid_hostname"
          /\ args' = <<token>>
          /\ result' = is_valid_hostname(token)
    /\ saved' = None
    /\ UNCHANGED disk

IsValidIpAddress ==
    /\ op = "init"
    /\ \E token \in Tokens :
          /\ op' = "is_valid_ip_address"
          /\ args' = <<token>>
          /\ result' = is_valid_ip_address(token)
    /\ saved' = None
    /\ UNCHANGED disk

NextHostname == IsValidHostname \/ IsValidIpAddress

SpecHostname == Init /\ [][NextHostname]_vars

(***************************************************************************)
(* Properties of the resolver, checked under SpecResolve.                   *)
(***************************************************************************)
Resolved == op = "parse_path_spec"

TheSpec == args[1]

IsLegacy(a) == load.paths # None /\ a \in DOMAIN load.paths[1]

\* position i holds the first colon of s
FirstColonAt(s, i) == s[i] = ":" /\ \A j \in 1..(i - 1) : s[j] # ":"

LeftOf(s, i) == SubSeq(s, 1, i - 1)

RightOf(s, i) == SubSeq(s, i + 1, Len(s))

ResultIs(path, host) == result.ok /\ result.path = path /\ result.host = host

\* the error message is the given fragments around the token
ErrorNaming(first, token, last) ==
    /\ ~result.ok
    /\ Len(result.msg) = Len(token) + 2
    /\ result.msg[1] = first
    /\ SubSeq(result.msg, 2, Len(token) + 1) = token
    /\ result.msg[Len(result.msg)] = last

IsNotRemotePath(token) == ErrorNaming("path '", token, "' is not a remote path")

IsUnknownHost(token) ==
    ErrorNaming("host '", token, "' not found and not a valid SSH connection string")

IsRemoteWithoutHost(token) ==
    ErrorNaming("path '", token, "' is a remote path but no host is specified")

\* the lexical rules of a hostname, stated on the whole token
HostnameShaped(t) ==
    /\ Len(t) >= 1
    /\ Len(t) <= 253
    /\ \A i \in 1..Len(t) : t[i] \in LowerLetters \cup UpperLetters \cup Digits \cup {"-", "."}
    /\ t[1] # "-" /\ t[Len(t)] # "-"
    /\ t[1] # "." /\ t[Len(t)] # "."
    /\ \A i \in 1..(Len(t) - 1) : ~(t[i] = "." /\ t[i + 1] = ".")

\* C1: a spec with a colon is split at its first colon only; when the left part
\* is a registered host alias and the right part is no key of the legacy table
\* (or there is no legacy table), the result is (right, Some(left)), the right
\* part verbatim with any further colons.
C1_AliasHostVerbatimPath ==
    Resolved =>
        \A i \in 1..Len(TheSpec) :
            (/\ FirstColonAt(TheSpec, i)
             /\ LeftOf(TheSpec, i) \in DOMAIN load.hosts
             /\ ~IsLegacy(RightOf(TheSpec, i)))
                => ResultIs(RightOf(TheSpec, i), Some(LeftOf(TheSpec, i)))

C1_Witness ==
    /\ Resolved
    /\ \E i \in 1..Len(TheSpec) :
          /\ FirstColonAt(TheSpec, i)
          /\ LeftOf(TheSpec, i) \in DOMAIN load.hosts
          /\ ~IsLegacy(RightOf(TheSpec, i))
          /\ Contains(RightOf(TheSpec, i), ":")
          /\ ResultIs(RightOf(TheSpec, i), Some(LeftOf(TheSpec, i)))

\* C2 as stated: for every registered host alias h and every remote legacy
\* alias a, resolving "h:a" gives (stored path of a, Some(h)).
C2_Original ==
    Resolved =>
        \A h \in DOMAIN load.hosts :
            \A a \in (IF load.paths = None THEN {} ELSE DOMAIN load.paths[1]) :
                (load.paths[1][a].is_remote /\ TheSpec = h \o <<":">> \o a)
                    => ResultIs(load.paths[1][a].path, Some(h))

\* C2 amended: for every registered host alias h whose name holds no colon and
\* every remote legacy alias a, resolving "h:a" gives (stored path of a, Some(h)).
C2_RemoteAliasSubstituted ==
    Resolved =>
        \A h \in DOMAIN load.hosts :
            \A a \in (IF load.paths = None THEN {} ELSE DOMAIN load.paths[1]) :
                (/\ ~Contains(h, ":")
                 /\ load.paths[1][a].is_remote
                 /\ TheSpec = h \o <<":">> \o a)
                    => ResultIs(load.paths[1][a].path, Some(h))

C2_Witness ==
    /\ Resolved
    /\ \E h \in DOMAIN load.hosts :
          \E a \in (IF load.paths = None THEN {} ELSE DOMAIN load.paths[1]) :
              /\ ~Contains(h, ":")
              /\ load.paths[1][a].is_remote
              /\ TheSpec = h \o <<":">> \o a
              /\ load.paths[1][a].path # a
              /\ ResultIs(load.paths[1][a].path, Some(h))

\* C3 as stated: for every registered host alias h and every local legacy alias
\* a, resolving "h:a" fails with the not-a-remote-path error naming a.
C3_Original ==
    Resolved =>
        \A h \in DOMAIN load.hosts :
            \A a \in (IF load.paths = None THEN {} ELSE DOMAIN load.paths[1]) :
                (~load.paths[1][a].is_remote /\ TheSpec = h \o <<":">> \o a)
                    => IsNotRemotePath(a)

\* C3 amended: for every registered host alias h whose name holds no colon
\* (hostname-shaped or holding '@' included) and every local legacy alias a,
\* resolving "h:a" fails with the not-a-remote-path error naming a.
C3_LocalAliasUnderHostRejected ==
    Resolved =>
        \A h \in DOMAIN load.hosts :
            \A a \in (IF load.paths = None THEN {} ELSE DOMAIN load.paths[1]) :
                (/\ ~Contains(h, ":")
                 /\ ~load.paths[1][a].is_remote
                 /\ TheSpec = h \o <<":">> \o a)
                    => IsNotRemotePath(a)

C3_Witness ==
    /\ Resolved
    /\ \E h \in DOMAIN load.hosts :
          \E a \in (IF load.paths = None THEN {} ELSE DOMAIN load.paths[1]) :
              /\ Contains(h, "@")
              /\ ~load.paths[1][a].is_remote
              /\ TheSpec = h \o <<":">> \o a
              /\ IsNotRemotePath(a)

\* C4: a spec without a colon that is a remote entry of the legacy table fails
\* with the remote-without-host error naming the spec, whether or not the same
\* string is also a host alias or a current-generation path name.
C4_RemoteAliasWithoutHostRejected ==
    (/\ Resolved
     /\ ~Contains(TheSpec, ":")
     /\ IsLegacy(TheSpec)
     /\ load.paths[1][TheSpec].is_remote)
        => IsRemoteWithoutHost(TheSpec)

C4_Witness ==
    /\ Resolved
    /\ ~Contains(TheSpec, ":")
    /\ IsLegacy(TheSpec)
    /\ load.paths[1][TheSpec].is_remote
    /\ (TheSpec \in DOMAIN load.hosts \/ TheSpec \in DOMAIN load.local_paths)
    /\ IsRemoteWithoutHost(TheSpec)

\* C5: a spec without a colon resolves to (stored path, None) when it is a local
\* entry of the legacy table and to (spec, None) when the legacy table is absent
\* or does not hold it; a successful resolution names a host exactly when the
\* spec holds a colon.
C5_BareSpecIsLocal ==
    Resolved =>
        /\ (~Contains(TheSpec, ":") /\ IsLegacy(TheSpec) /\ ~load.paths[1][TheSpec].is_remote)
               => ResultIs(load.paths[1][TheSpec].path, None)
        /\ (~Contains(TheSpec, ":") /\ ~IsLegacy(TheSpec)) => ResultIs(TheSpec, None)
        /\ result.ok => ((result.host # None) <=> Contains(TheSpec, ":"))

C5_Witness ==
    /\ Resolved
    /\ ~Contains(TheSpec, ":")
    /\ IsLegacy(TheSpec)
    /\ ~load.paths[1][TheSpec].is_remote
    /\ load.paths[1][TheSpec].path # TheSpec
    /\ ResultIs(load.paths[1][TheSpec].path, None)

\* C6: when the part left of the first colon is no host alias and holds '@' or
\* is hostname-shaped, the result is (right, Some(left)), both verbatim: the
\* right part is never looked up in the legacy table and no not-a-remote-path
\* error occurs.
C6_RawHostBypassesAliases ==
    Resolved =>
        \A i \in 1..Len(TheSpec) :
            (/\ FirstColonAt(TheSpec, i)
             /\ LeftOf(TheSpec, i) \notin DOMAIN load.hosts
             /\ (Contains(LeftOf(TheSpec, i), "@") \/ HostnameShaped(LeftOf(TheSpec, i))))
                => ResultIs(RightOf(TheSpec, i), Some(LeftOf(TheSpec, i)))

C6_Witness ==
    /\ Resolved
    /\ \E i \in 1..Len(TheSpec) :
          /\ FirstColonAt(TheSpec, i)
          /\ LeftOf(TheSpec, i) \notin DOMAIN load.hosts
          /\ Contains(LeftOf(TheSpec, i), "@")
          /\ IsLegacy(RightOf(TheSpec, i))
          /\ ResultIs(RightOf(TheSpec, i), Some(LeftOf(TheSpec, i)))

\* C7: when the part left of the first colon is no host alias, holds no '@' and
\* is not hostname-shaped (the empty left part included), resolution fails with
\* the unknown-host error naming it; for a spec with a colon the unknown-host
\* error occurs in no other case, and every other outcome is either a result
\* naming the left part as host or (alias branch only) not-a-remote-path.
C7_UnknownHostRejected ==
    Resolved =>
        \A i \in 1..Len(TheSpec) :
            FirstColonAt(TheSpec, i) =>
                LET left == LeftOf(TheSpec, i)
                    unknown == /\ left \notin DOMAIN load.hosts
                               /\ ~Contains(left, "@")
                               /\ ~HostnameShaped(left)
                IN  /\ unknown <=> IsUnknownHost(left)
                    /\ ~unknown =>
                          \/ result.ok /\ result.host = Some(left)
                          \/ left \in DOMAIN load.hosts /\ IsNotRemotePath(RightOf(TheSpec, i))

C7_Witness ==
    /\ Resolved
    /\ Len(TheSpec) >= 1
    /\ TheSpec[1] = ":"
    /\ <<>> \notin DOMAIN load.hosts
    /\ IsUnknownHost(<<>>)

(***************************************************************************)
(* Properties of the validator, checked under SpecHostname.                 *)
(***************************************************************************)
\* C8: is_valid_hostname holds exactly of the tokens that are non-empty, at most
\* 253 characters long, made of ASCII letters, digits, '-' and '.', with neither
\* '-' nor '.' first or last and no two adjacent '.'; the named examples are
\* rejected and accepted as listed, whatever the IPv4 check says.
C8_HostnameRules ==
    op = "is_valid_hostname" =>
        /\ result = HostnameShaped(args[1])
        /\ args[1] \in {<<"a", ".", ".", "b">>, <<"-", "a", "b", "c">>, <<"a", "b", "c", "-">>,
                        <<>>, Rep("a", 254)} => result = FALSE
        /\ args[1] \in {<<"w", "e", "b", "-", "0", "1", ".", "i", "n", "t", "e", "r", "n", "a", "l">>,
                        <<"1", "0", ".", "0", ".", "0", ".", "5">>,
                        <<"0", "1", "0", ".", "0", ".", "0", ".", "5">>} => result = TRUE

C8_Witness ==
    /\ op = "is_valid_hostname"
    /\ args[1] = <<"0", "1", "0", ".", "0", ".", "0", ".", "5">>
    /\ ~is_valid_ip_address(args[1])
    /\ result = TRUE

(***************************************************************************)
(* Properties of the handlers and of persistence, checked under Spec.       *)
(***************************************************************************)
OldConfig == ConfigFromJson(disk)

NewConfig == ConfigFromJson(disk')

Copying == op = "copy_files"

OtherHost == [connection |-> <<"v", "@", "y">>, port |-> 2222, key_path |-> Some(HostKey)]

OtherLocalTables ==
    {EmptyMap,
     Insert(EmptyMap, PathP, LocalDir),
     Insert(EmptyMap, PathP, RemoteDir),
     Insert(Insert(EmptyMap, PathP, LocalDir), HostH, RemoteDir)}

OtherHostPathTables ==
    {EmptyMap,
     Insert(EmptyMap, HostH, Insert(EmptyMap, PathP, RemoteDir)),
     Insert(EmptyMap, HostH, Insert(Insert(EmptyMap, PathP, LocalDir), HostH, RemoteDir)),
     Insert(EmptyMap, HostG, Insert(EmptyMap, PathP, RemoteDir))}

\* the Stores that agree with the loaded one on the host names and on the
\* legacy table
AgreeingStores ==
    {[hosts |-> [n \in DOMAIN load.hosts |-> h],
      paths |-> load.paths,
      local_paths |-> local,
      host_paths |-> byHost] :
        h \in {DefaultHost, OtherHost},
        local \in OtherLocalTables,
        byHost \in OtherHostPathTables}

\* C12: the resolution of a spec is the same against every Store that has
\* the same host names and the same legacy table, whatever its local-path and
\* host-path tables and its hosts' connection data are.
C12_ResolutionIgnoresNewTables ==
    Resolved => \A other \in AgreeingStores : parse_path_spec(TheSpec, other) = result

\* "h:p" where p is only a host-path alias of h: the literal p comes back
C12_Witness ==
    /\ Resolved
    /\ TheSpec = Target(HostH, PathP)
    /\ HostH \in DOMAIN load.hosts
    /\ HostH \in DOMAIN load.host_paths
    /\ PathP \in DOMAIN load.host_paths[HostH]
    /\ ~IsLegacy(PathP)
    /\ ResultIs(PathP, Some(HostH))

(***************************************************************************)
(* Claims about the path listing.                                           *)
(***************************************************************************)
Listing == op = "list_paths_new"

LinesOf(kind) == {i \in DOMAIN result : result[i].kind = kind}

\* the section a line belongs to; a blank line belongs to none
SectionRank(kind) ==
    CASE kind \in {"local_heading", "local_entry"} -> 1
      [] kind \in {"host_heading", "host_name", "host_entry"} -> 2
      [] kind \in {"legacy_heading", "legacy_entry"} -> 3
      [] kind = "no_paths" -> 4
      [] OTHER -> 0

\* the host line an entry line stands under
HostAbove(i) ==
    LET above == {j \in LinesOf("host_name") : j < i}
    IN  IF above = {} THEN <<>>
        ELSE result[CHOOSE j \in above : \A k \in above : k <= j].name

LegacyNames == IF load.paths = None THEN {} ELSE DOMAIN load.paths[1]

\* one heading for a table that has entries, none for one that has not, and
\* every entry line of the table after its heading
UnderOwnHeading(heading, entry, nonEmpty) ==
    /\ Cardinality(LinesOf(heading)) = IF nonEmpty THEN 1 ELSE 0
    /\ \A i \in LinesOf(entry) : \E j \in LinesOf(heading) : j < i

\* C13: the listing prints the local-path table, then the host-path table
\* grouped by host, then the legacy table, each table that has entries under
\* one heading of its own; every name of every table is printed exactly once
\* for that table, with that table's path; and the no-paths message is printed
\* exactly when all three tables are empty or absent.
C13_ListingSections ==
    Listing =>
        /\ \A i, j \in DOMAIN result :
               i < j /\ SectionRank(result[i].kind) # 0 /\ SectionRank(result[j].kind) # 0
                   => SectionRank(result[i].kind) <= SectionRank(result[j].kind)
        /\ UnderOwnHeading("local_heading", "local_entry", DOMAIN load.local_paths # {})
        /\ UnderOwnHeading("host_heading", "host_name", DOMAIN load.host_paths # {})
        /\ UnderOwnHeading("legacy_heading", "legacy_entry", LegacyNames # {})
        /\ \A i \in LinesOf("local_entry") : result[i].name \in DOMAIN load.local_paths
        /\ \A n \in DOMAIN load.local_paths :
               \E i \in LinesOf("local_entry") :
                   /\ result[i].name = n
                   /\ result[i].value = expand_path(load.local_paths[n])
                   /\ \A k \in LinesOf("local_entry") : result[k].name = n => k = i
        /\ \A i \in LinesOf("host_name") : result[i].name \in DOMAIN load.host_paths
        /\ \A i \in LinesOf("host_entry") :
               /\ HostAbove(i) \in DOMAIN load.host_paths
               /\ result[i].name \in DOMAIN load.host_paths[HostAbove(i)]
        /\ \A h \in DOMAIN load.host_paths :
               /\ Cardinality({i \in LinesOf("host_name") : result[i].name = h}) = 1
               /\ \A n \in DOMAIN load.host_paths[h] :
                      \E i \in LinesOf("host_entry") :
                          /\ HostAbove(i) = h
                          /\ result[i].name = n
                          /\ result[i].value = load.host_paths[h][n]
                          /\ \A k \in LinesOf("host_entry") :
                                 HostAbove(k) = h /\ result[k].name = n => k = i
        /\ \A i \in LinesOf("legacy_entry") : result[i].name \in LegacyNames
        /\ \A n \in LegacyNames :
               \E i \in LinesOf("legacy_entry") :
                   /\ result[i].name = n
                   /\ result[i].type = (IF load.paths[1][n].is_remote THEN "remote" ELSE "local")
                   /\ \A k \in LinesOf("legacy_entry") : result[k].name = n => k = i
        /\ LinesOf("no_paths") # {}
               <=> (DOMAIN load.local_paths = {} /\ DOMAIN load.host_paths = {} /\ LegacyNames = {})

\* the name p in all three tables, printed three times, with two legacy names
C13_Witness ==
    /\ Listing
    /\ PathP \in DOMAIN load.local_paths
    /\ HostH \in DOMAIN load.host_paths
    /\ PathP \in DOMAIN load.host_paths[HostH]
    /\ LegacyNames = {PathP, HostH}
    /\ Cardinality({i \in DOMAIN result : result[i].name = PathP}) = 3
    /\ LinesOf("no_paths") = {}

(***************************************************************************)
(* Claims about the scp command.                                            *)
(***************************************************************************)
Built == Copying /\ result.cmd # None

Command == result.cmd[1]

\* the argument at position i of the command is flag, followed by value
FlagAt(i, flag, value) ==
    i + 1 \in DOMAIN Command /\ Command[i] = flag /\ Command[i + 1] = value

IsAliasEndpoint(e) == e.host # None /\ e.host[1] \in DOMAIN load.hosts

\* C14: for every endpoint of a copy that resolves to a registered host, the
\* command has the target "connection:path" of that host, that host's own
\* port after -P and, when the host has a key, that key after -i.
C14_EveryAliasEndpointHasItsFlags ==
    Built =>
        \A e \in {result.src[1], result.dst[1]} :
            IsAliasEndpoint(e) =>
                LET host_config == load.hosts[e.host[1]]
                IN  /\ \E i \in DOMAIN Command :
                           Command[i] = Target(host_config.connection, e.path)
                    /\ \E i \in DOMAIN Command : FlagAt(i, FlagP, to_string(host_config.port))
                    /\ host_config.key_path # None =>
                           \E i \in DOMAIN Command : FlagAt(i, FlagI, host_config.key_path[1])

\* the positions of the command's two path arguments: those that are neither
\* a flag nor the value after -P or -i
PathArgs ==
    {i \in DOMAIN Command :
        /\ Command[i] \notin {FlagR, FlagP, FlagI}
        /\ (i > 1 => Command[i - 1] \notin {FlagP, FlagI})}

SourceArg == Command[CHOOSE i \in PathArgs : \A j \in PathArgs : i <= j]

DestinationArg == Command[CHOOSE i \in PathArgs : \A j \in PathArgs : j <= i]

Tilde == <<"~", "/">>

\* what the command must carry for a resolved endpoint
CarriedAs(e, arg) ==
    IF e.host = None
    THEN /\ arg = expand_path(e.path)
         /\ (StartsWith(e.path, Tilde) => arg # e.path /\ ~StartsWith(arg, Tilde))
         /\ (~StartsWith(e.path, Tilde) => arg = e.path)
    ELSE LET connection == IF e.host[1] \in DOMAIN load.hosts
                           THEN load.hosts[e.host[1]].connection
                           ELSE e.host[1]
         IN  arg = Target(connection, e.path)

SourceResolution == parse_path_spec(args[1], load)

DestinationResolution == parse_path_spec(args[2], load)

StepsNamed(step) == {i \in DOMAIN result.log : result.log[i] = step}

C17_HostPathsKeyedByHosts ==
    \A host_name \in DOMAIN load.host_paths : host_name \in DOMAIN load.hosts

\* C18: a host entry appears only by add_host of its name and disappears only
\* by remove_host of its name, and no step changes the connection, port or key
\* of an entry that stays.  add_host of a registered name and remove_host of
\* an unregistered name leave the persisted Store as it was and save nothing;
\* remove_host of a registered name removes that entry and no other.
C18_HostEntriesAreStable ==
    [][LET old == OldConfig.hosts
           new == NewConfig.hosts
       IN  /\ \A n \in DOMAIN new \ DOMAIN old : op' = "add_host" /\ args'[1] = n
           /\ \A n \in DOMAIN old \ DOMAIN new : op' = "remove_host" /\ args'[1] = n
           /\ \A n \in DOMAIN old \cap DOMAIN new : new[n] = old[n]
           /\ (op' = "add_host" /\ args'[1] \in DOMAIN old => disk' = disk /\ saved' = None)
           /\ (op' = "remove_host" /\ args'[1] \notin DOMAIN old => disk' = disk /\ saved' = None)
           /\ (op' = "remove_host" /\ args'[1] \in DOMAIN old =>
                  DOMAIN new = DOMAIN old \ {args'[1]})]_vars

\* add_host of a registered name with another port and a key: the entry stays
C18_Witness ==
    /\ op = "add_host"
    /\ result = "WARN"
    /\ saved = None
    /\ args[1] \in DOMAIN load.hosts
    /\ load.hosts[args[1]].port # args[3]
    /\ load.hosts[args[1]].key_path = None
    /\ args[4] # None

(***************************************************************************)
(* Claims about the IPv4 test.                                              *)
(***************************************************************************)
\* a decimal 8-bit number: digits only, at most 255, no leading zero unless
\* it is "0"
DecimalOctet(part) ==
    /\ part # <<>>
    /\ \A i \in DOMAIN part : part[i] \in Digits
    /\ DecimalValue(part, 0) <= 255
    /\ (Len(part) > 1 => part[1] # "0")

DottedQuad(token) ==
    /\ Len(Split(token, ".")) = 4
    /\ \A k \in 1..4 : DecimalOctet(Split(token, ".")[k])

====
